---------------------------- MODULE Spec2Model ----------------------------
(***************************************************************************)
(* A model of punkt's TrainingData store (src/trainer/data.rs): the four   *)
(* containers and their insert_* / remove_* / clear_* mutators, the JSON   *)
(* loader (FromStr::from_str) and the flattening CollocationsIterator.     *)
(***************************************************************************)
EXTENDS Integers, Sequences, FiniteSets, Bags, TLC

(***************************************************************************)
(* Bounds of the model.                                                    *)
(***************************************************************************)
\* Tokens are the strings "1" .. "MaxTok", written as the numbers 1..MaxTok.
MaxTok == 2
\* OrthographicContext values handed to insert_orthographic_context: 0..MaxCtxt.
MaxCtxt == 1
\* Longest abbrev_types or sentence_starters array of a document.
MaxFlat == 1
\* Longest collocations array of a document.
MaxColl == 2

Tokens == 1..MaxTok
Contexts == 0..MaxCtxt

(***************************************************************************)
(* Option<T>                                                               *)
(***************************************************************************)
None == [tag |-> "None"]
Some(x) == [tag |-> "Some", v |-> x]

(***************************************************************************)
(* State.  The first four variables are the fields of TrainingData.        *)
(*   ret   the boolean most recently returned by a mutator (FALSE before   *)
(*         any call),                                                      *)
(*   op    the most recent call: its name and its arguments (0 = unused),  *)
(*   iterator  the live CollocationsIterator, if any: its outer cursor iter  *)
(*         (the left tokens not yet visited) and cur (the current left     *)
(*         token with the right tokens of its bucket not yet visited),     *)
(*   item  what the iterator's most recent next() returned,                *)
(*   yielded    the bag of pairs the live iterator has yielded so far,     *)
(*   exhausted  whether the live iterator has already returned None,       *)
(*   depth  how many times the most recent next() re-entered itself,       *)
(*   input  the document handed to from_str, as Json::from_str parses it,  *)
(*   loaded what from_str returned for it (None before the call),          *)
(*   panicked  whether a call has panicked (an unwrap() of None).          *)
(***************************************************************************)
VARIABLES abbrev_types, collocations, sentence_starters, orthographic_context,
          ret, op, iterator, item, yielded, exhausted, depth, input, loaded,
          panicked

store == <<abbrev_types, collocations, sentence_starters, orthographic_context>>
itvars == <<iterator, item, yielded, exhausted, depth>>
ldvars == <<input, loaded>>
vars == <<abbrev_types, collocations, sentence_starters, orthographic_context,
          ret, op, iterator, item, yielded, exhausted, depth, input, loaded,
          panicked>>

Call(name, a, b) == [name |-> name, tok0 |-> a, tok1 |-> b]

\* The empty map (HashMap::with_hash_state(XXState::new())).
EmptyMap == [k \in {} |-> {}]

\* HashMap::insert(k, v) on a map m.
MapInsert(m, k, v) == [x \in (DOMAIN m) \cup {k} |-> IF x = k THEN v ELSE m[x]]

\* HashMap::get(k) / get_mut(k) on a map m.
MapGet(m, k) == IF k \in DOMAIN m THEN Some(m[k]) ELSE None

\* HashMap::remove(k) on a map m.
MapRemove(m, k) == [x \in (DOMAIN m) \ {k} |-> m[x]]

(***************************************************************************)
(* Queries.                                                                *)
(***************************************************************************)
contains_abbrev(tok) == tok \in abbrev_types

contains_sentence_starter(tok) == tok \in sentence_starters

\* contains_collocation that only looks for the left token's bucket.
contains_collocation_key_only(tok0, tok1) == tok0 \in DOMAIN collocations

contains_collocation(tok0, tok1) ==
  IF tok0 \in DOMAIN collocations THEN tok1 \in collocations[tok0] ELSE FALSE

contains_orthographic_context(tok) == tok \in DOMAIN orthographic_context

get_orthographic_context(tok) ==
  IF tok \in DOMAIN orthographic_context
    THEN Some(orthographic_context[tok])
    ELSE None

\* fold(0, |acc, (_, s)| acc + s.len()) over the entries of a map m.
RECURSIVE FoldLen(_, _)
FoldLen(m, keys) ==
  IF keys = {} THEN 0
  ELSE LET k == CHOOSE x \in keys : TRUE
       IN  Cardinality(m[k]) + FoldLen(m, keys \ {k})

\* collocations_len that counts the left tokens of the map.
collocations_len_keys == Cardinality(DOMAIN collocations)

collocations_len == FoldLen(collocations, DOMAIN collocations)

abbrevs_len == Cardinality(abbrev_types)

sentence_starters_len == Cardinality(sentence_starters)

orthographic_context_len == Cardinality(DOMAIN orthographic_context)

(***************************************************************************)
(* Mutators.                                                               *)
(***************************************************************************)
\* insert_abbrev with the presence test inverted.
insert_abbrev_inverted(abbrev) ==
  /\ IF abbrev \in abbrev_types
       THEN /\ abbrev_types' = abbrev_types \cup {abbrev}
            /\ ret' = (abbrev \notin abbrev_types)
       ELSE /\ ret' = FALSE
            /\ UNCHANGED abbrev_types
  /\ op' = Call("insert_abbrev", abbrev, 0)
  /\ UNCHANGED panicked
  /\ UNCHANGED <<collocations, sentence_starters, orthographic_context, itvars, ldvars>>

insert_abbrev(abbrev) ==
  /\ IF ~(abbrev \in abbrev_types)
       THEN /\ abbrev_types' = abbrev_types \cup {abbrev}
            /\ ret' = (abbrev \notin abbrev_types)
       ELSE /\ ret' = FALSE
            /\ UNCHANGED abbrev_types
  /\ op' = Call("insert_abbrev", abbrev, 0)
  /\ UNCHANGED panicked
  /\ UNCHANGED <<collocations, sentence_starters, orthographic_context, itvars, ldvars>>

\* insert_collocation that always installs a fresh bucket for tok0.
insert_collocation_fresh_bucket(tok0, tok1) ==
  LET withBucket == MapInsert(collocations, tok0, {})
  IN  /\ collocations' =
           [withBucket EXCEPT ![tok0] = withBucket[tok0] \cup {tok1}]
      /\ ret' = (tok1 \notin withBucket[tok0])
      /\ op' = Call("insert_collocation", tok0, tok1)
      /\ UNCHANGED panicked
      /\ UNCHANGED <<abbrev_types, sentence_starters, orthographic_context,
                     itvars, ldvars>>

\* insert_collocation that never creates the bucket of an absent left token:
\* its unwrap() finds None and panics.
insert_collocation_no_bucket(tok0, tok1) ==
  LET bucket == MapGet(collocations, tok0)
  IN  /\ IF bucket # None
            THEN /\ collocations' =
                      [collocations EXCEPT ![tok0] = bucket.v \cup {tok1}]
                 /\ ret' = (tok1 \notin bucket.v)
                 /\ UNCHANGED panicked
            ELSE /\ panicked' = TRUE
                 /\ UNCHANGED <<collocations, ret>>
      /\ op' = Call("insert_collocation", tok0, tok1)
      /\ UNCHANGED <<abbrev_types, sentence_starters, orthographic_context,
                     itvars, ldvars>>

insert_collocation(tok0, tok1) ==
  LET withBucket == IF ~(tok0 \in DOMAIN collocations)
                      THEN MapInsert(collocations, tok0, {})
                      ELSE collocations
      bucket == MapGet(withBucket, tok0)
  IN  /\ IF bucket # None
            THEN /\ collocations' =
                      [withBucket EXCEPT ![tok0] = bucket.v \cup {tok1}]
                 /\ ret' = (tok1 \notin bucket.v)
                 /\ UNCHANGED panicked
            ELSE /\ panicked' = TRUE
                 /\ UNCHANGED <<collocations, ret>>
      /\ op' = Call("insert_collocation", tok0, tok1)
      /\ UNCHANGED <<abbrev_types, sentence_starters, orthographic_context,
                     itvars, ldvars>>

insert_sentence_starter(tok) ==
  /\ IF ~(tok \in sentence_starters)
       THEN /\ sentence_starters' = sentence_starters \cup {tok}
            /\ ret' = (tok \notin sentence_starters)
       ELSE /\ ret' = FALSE
            /\ UNCHANGED sentence_starters
  /\ op' = Call("insert_sentence_starter", tok, 0)
  /\ UNCHANGED panicked
  /\ UNCHANGED <<abbrev_types, collocations, orthographic_context, itvars, ldvars>>

\* insert_orthographic_context without the presence test: the map's own
\* insert overwrites.
insert_orthographic_context_overwrite(tok, ctxt) ==
  /\ orthographic_context' = MapInsert(orthographic_context, tok, ctxt)
  /\ ret' = (tok \notin DOMAIN orthographic_context)
  /\ op' = Call("insert_orthographic_context", tok, ctxt)
  /\ UNCHANGED panicked
  /\ UNCHANGED <<abbrev_types, collocations, sentence_starters, itvars, ldvars>>

insert_orthographic_context(tok, ctxt) ==
  /\ IF ~(tok \in DOMAIN orthographic_context)
       THEN /\ orthographic_context' = MapInsert(orthographic_context, tok, ctxt)
            /\ ret' = (tok \notin DOMAIN orthographic_context)
       ELSE /\ ret' = FALSE
            /\ UNCHANGED orthographic_context
  /\ op' = Call("insert_orthographic_context", tok, ctxt)
  /\ UNCHANGED panicked
  /\ UNCHANGED <<abbrev_types, collocations, sentence_starters, itvars, ldvars>>

\* clear_abbrevs that empties the sentence starters as well.
clear_abbrevs_and_starters ==
  /\ abbrev_types' = {}
  /\ sentence_starters' = {}
  /\ op' = Call("clear_abbrevs", 0, 0)
  /\ UNCHANGED panicked
  /\ UNCHANGED <<collocations, orthographic_context, ret, itvars, ldvars>>

clear_abbrevs ==
  /\ abbrev_types' = {}
  /\ op' = Call("clear_abbrevs", 0, 0)
  /\ UNCHANGED panicked
  /\ UNCHANGED <<collocations, sentence_starters, orthographic_context, ret, itvars, ldvars>>

clear_collocations ==
  /\ collocations' = EmptyMap
  /\ op' = Call("clear_collocations", 0, 0)
  /\ UNCHANGED panicked
  /\ UNCHANGED <<abbrev_types, sentence_starters, orthographic_context, ret, itvars, ldvars>>

clear_sentence_starters ==
  /\ sentence_starters' = {}
  /\ op' = Call("clear_sentence_starters", 0, 0)
  /\ UNCHANGED panicked
  /\ UNCHANGED <<abbrev_types, collocations, orthographic_context, ret, itvars, ldvars>>

clear_orthographic_context ==
  /\ orthographic_context' = EmptyMap
  /\ op' = Call("clear_orthographic_context", 0, 0)
  /\ UNCHANGED panicked
  /\ UNCHANGED <<abbrev_types, collocations, sentence_starters, ret, itvars, ldvars>>

remove_abbrev(abbrev) ==
  /\ abbrev_types' = abbrev_types \ {abbrev}
  /\ ret' = (abbrev \in abbrev_types)
  /\ op' = Call("remove_abbrev", abbrev, 0)
  /\ UNCHANGED panicked
  /\ UNCHANGED <<collocations, sentence_starters, orthographic_context, itvars, ldvars>>

\* remove_collocation that looks the left token up with entry().or_insert():
\* an absent left token gains an empty bucket.
remove_collocation_entry(tok0, tok1) ==
  LET withBucket == IF tok0 \in DOMAIN collocations
                      THEN collocations
                      ELSE MapInsert(collocations, tok0, {})
  IN  /\ collocations' = [withBucket EXCEPT ![tok0] = withBucket[tok0] \ {tok1}]
      /\ ret' = (tok1 \in withBucket[tok0])
      /\ op' = Call("remove_collocation", tok0, tok1)
      /\ UNCHANGED panicked
      /\ UNCHANGED <<abbrev_types, sentence_starters, orthographic_context,
                     itvars, ldvars>>

remove_collocation(tok0, tok1) ==
  /\ IF tok0 \in DOMAIN collocations
       THEN /\ collocations' =
                 [collocations EXCEPT ![tok0] = collocations[tok0] \ {tok1}]
            /\ ret' = (tok1 \in collocations[tok0])
       ELSE /\ ret' = FALSE
            /\ UNCHANGED collocations
  /\ op' = Call("remove_collocation", tok0, tok1)
  /\ UNCHANGED panicked
  /\ UNCHANGED <<abbrev_types, sentence_starters, orthographic_context, itvars, ldvars>>

remove_sentence_starter(tok) ==
  /\ sentence_starters' = sentence_starters \ {tok}
  /\ ret' = (tok \in sentence_starters)
  /\ op' = Call("remove_sentence_starter", tok, 0)
  /\ UNCHANGED panicked
  /\ UNCHANGED <<abbrev_types, collocations, orthographic_context, itvars, ldvars>>

\* remove_orthographic_context that answers is_none() instead of is_some().
remove_orthographic_context_is_none(tok) ==
  /\ orthographic_context' = MapRemove(orthographic_context, tok)
  /\ ret' = ~(tok \in DOMAIN orthographic_context)
  /\ op' = Call("remove_orthographic_context", tok, 0)
  /\ UNCHANGED panicked
  /\ UNCHANGED <<abbrev_types, collocations, sentence_starters, itvars, ldvars>>

remove_orthographic_context(tok) ==
  /\ orthographic_context' = MapRemove(orthographic_context, tok)
  /\ ret' = (tok \in DOMAIN orthographic_context)
  /\ op' = Call("remove_orthographic_context", tok, 0)
  /\ UNCHANGED panicked
  /\ UNCHANGED <<abbrev_types, collocations, sentence_starters, itvars, ldvars>>

(***************************************************************************)
(* CollocationsIterator.  A HashMap or HashSet cursor visits the entries   *)
(* not yet visited in an order the hash table fixes and the caller cannot  *)
(* know: a cursor is the set of entries left, and its next() takes any one *)
(* of them.                                                                *)
(***************************************************************************)
\* collocations_iter(): CollocationsIterator { iter: ..iter(), cur: None }.
NewIterator == [iter |-> DOMAIN collocations, cur |-> None]

\* match self.cur { None => self.cur = self.iter.next().map(..), _ => () }:
\* the iterator states this statement can leave.
FillCur(s) ==
  IF s.cur = None
    THEN IF s.iter = {}
           THEN {s}
           ELSE {[iter |-> s.iter \ {k},
                  cur |-> Some([k |-> k, it |-> collocations[k]])] : k \in s.iter}
    ELSE {s}

\* next() that returns None when a bucket's cursor is exhausted, without
\* re-entering itself.
IterNext_no_recurse(s) ==
  UNION {
    IF f.cur = None
      THEN {[it |-> f, res |-> None, depth |-> 0]}
      ELSE LET c == f.cur.v
           IN  IF c.it = {}
                 THEN {[it |-> [f EXCEPT !.cur = None], res |-> None, depth |-> 0]}
                 ELSE {[it |-> [f EXCEPT !.cur = Some([k |-> c.k, it |-> c.it \ {v}])],
                        res |-> Some(<<c.k, v>>),
                        depth |-> 0] : v \in c.it}
    : f \in FillCur(s)}

\* next() whose outer cursor starts over once it has run out.
RECURSIVE IterNext_rewind(_)
IterNext_rewind(s) ==
  UNION {
    IF f.cur = None
      THEN {[it |-> [f EXCEPT !.iter = DOMAIN collocations],
             res |-> None, depth |-> 0]}
      ELSE LET c == f.cur.v
           IN  IF c.it = {}
                 THEN {[o EXCEPT !.depth = @ + 1] :
                         o \in IterNext_rewind([f EXCEPT !.cur = None])}
                 ELSE {[it |-> [f EXCEPT !.cur = Some([k |-> c.k, it |-> c.it \ {v}])],
                        res |-> Some(<<c.k, v>>),
                        depth |-> 0] : v \in c.it}
    : f \in FillCur(s)}

\* The rest of next(), from `let res = match self.cur`: the outcomes of a
\* call entered in iterator state s, each the state left, the result and the
\* number of times next() re-entered itself.
RECURSIVE IterNext(_)
IterNext(s) ==
  UNION {
    IF f.cur = None
      THEN {[it |-> f, res |-> None, depth |-> 0]}
      ELSE LET c == f.cur.v
           IN  IF c.it = {}
                 THEN {[o EXCEPT !.depth = @ + 1] :
                         o \in IterNext([f EXCEPT !.cur = None])}
                 ELSE {[it |-> [f EXCEPT !.cur = Some([k |-> c.k, it |-> c.it \ {v}])],
                        res |-> Some(<<c.k, v>>),
                        depth |-> 0] : v \in c.it}
    : f \in FillCur(s)}

\* size_hint(): (self.iter.size_hint().0, None); the outer cursor's lower
\* bound is the number of entries it has left.
size_hint(s) == <<Cardinality(s.iter), None>>

collocations_iter ==
  /\ iterator = None
  /\ iterator' = Some(NewIterator)
  /\ item' = None
  /\ yielded' = EmptyBag
  /\ exhausted' = FALSE
  /\ depth' = 0
  /\ op' = Call("collocations_iter", 0, 0)
  /\ UNCHANGED panicked
  /\ UNCHANGED <<store, ret, ldvars>>

next ==
  /\ iterator # None
  /\ \E o \in IterNext(iterator.v) :
       /\ iterator' = Some(o.it)
       /\ item' = o.res
       /\ yielded' = IF o.res = None THEN yielded
                     ELSE yielded (+) SetToBag({o.res.v})
       /\ exhausted' = (exhausted \/ o.res = None)
       /\ depth' = o.depth
  /\ op' = Call("next", 0, 0)
  /\ UNCHANGED panicked
  /\ UNCHANGED <<store, ret, ldvars>>

\* The iterator goes out of scope and its borrow of the store ends.
drop ==
  /\ iterator # None
  /\ iterator' = None
  /\ item' = None
  /\ yielded' = EmptyBag
  /\ exhausted' = FALSE
  /\ depth' = 0
  /\ op' = Call("drop", 0, 0)
  /\ UNCHANGED panicked
  /\ UNCHANGED <<store, ret, ldvars>>

(***************************************************************************)
(* FromStr::from_str.  Json::from_str(s) belongs to rustc_serialize: the   *)
(* model starts from what it returns, Err or Ok of a Json value.  A Json   *)
(* object is a function from its keys to Json values.                      *)
(***************************************************************************)
JString(st) == [tag |-> "String", s |-> st]
JU64(n) == [tag |-> "U64", n |-> n]
JI64(n) == [tag |-> "I64", n |-> n]
JArray(arr) == [tag |-> "Array", a |-> arr]
JObject(obj) == [tag |-> "Object", o |-> obj]
Ok(json) == [tag |-> "Ok", v |-> json]
Err == [tag |-> "Err"]

\* The number of values of a u8: `as u8` keeps a u64 modulo it.
U8Values == 256

\* The elements from_str takes off the end of an inner collocations array.
PairWidth == 2

\* obj.remove(path): the value at path, if any.
ObjRemove(obj, path) == IF path \in DOMAIN obj THEN Some(obj[path]) ELSE None

\* Vec::pop: the last element, if any, and the vector without it.
Pop(ar) ==
  IF ar = <<>>
    THEN [item |-> None, rest |-> <<>>]
    ELSE [item |-> Some(ar[Len(ar)]), rest |-> SubSeq(ar, 1, Len(ar) - 1)]

IsSomeString(x) == x.tag = "Some" /\ x.v.tag = "String"

IsSomeArray(x) == x.tag = "Some" /\ x.v.tag = "Array"

IsSomeObject(x) == x.tag = "Some" /\ x.v.tag = "Object"

\* read_json_array_data!(path, Json::String(st), set.insert(st)): the loop
\* over arr from its element i on, into the set.
RECURSIVE ReadStrings(_, _, _)
ReadStrings(set, arr, i) ==
  IF i > Len(arr) THEN set
  ELSE IF arr[i].tag = "String"
         THEN ReadStrings(set \cup {arr[i].s}, arr, i + 1)
         ELSE ReadStrings(set, arr, i + 1)

\* The collocations loop taking the first two elements of ar, not the last.
ReadPair_first_two(colls, ar) ==
  IF Len(ar) >= 2 /\ ar[1].tag = "String" /\ ar[2].tag = "String"
    THEN LET l == ar[1].s
             r == ar[2].s
         IN  IF ~(l \in DOMAIN colls)
               THEN Some(MapInsert(colls, l, {r}))
               ELSE Some([colls EXCEPT ![l] = colls[l] \cup {r}])
    ELSE None

\* The collocations loop taking the last element for the left token and the
\* one before it for the right token.
ReadPair_swapped(colls, ar) ==
  LET first == Pop(ar)
      second == Pop(first.rest)
  IN  IF IsSomeString(first.item) /\ IsSomeString(second.item)
        THEN LET l == first.item.v.s
                 r == second.item.v.s
             IN  IF ~(l \in DOMAIN colls)
                   THEN Some(MapInsert(colls, l, {r}))
                   ELSE Some([colls EXCEPT ![l] = colls[l] \cup {r}])
        ELSE None

\* The action of the collocations loop on one Json::Array(ar): the map with
\* the pair inserted, or None for `return None`.
ReadPair(colls, ar) ==
  LET first == Pop(ar)
      second == Pop(first.rest)
  IN  IF IsSomeString(first.item) /\ IsSomeString(second.item)
        THEN LET r == first.item.v.s
                 l == second.item.v.s
             IN  IF ~(l \in DOMAIN colls)
                   THEN Some(MapInsert(colls, l, {r}))
                   ELSE Some([colls EXCEPT ![l] = colls[l] \cup {r}])
        ELSE None

\* read_json_array_data!("collocations", Json::Array(mut ar), ..): the loop
\* over arr from its element i on; None for `return None`.
RECURSIVE ReadCollocations(_, _, _)
ReadCollocations(colls, arr, i) ==
  IF i > Len(arr) THEN Some(colls)
  ELSE IF arr[i].tag = "Array"
         THEN LET next_colls == ReadPair(colls, arr[i].a)
              IN  IF next_colls = None
                    THEN None
                    ELSE ReadCollocations(next_colls.v, arr, i + 1)
         ELSE ReadCollocations(colls, arr, i + 1)

\* The ortho_context loop skipping the values that do not fit a u8.
ReadOrtho_skip_wide(obj) ==
  [k \in {x \in DOMAIN obj : obj[x].tag = "U64" /\ obj[x].n < U8Values} |->
     obj[k].n]

\* The ortho_context loop: every (k, v) with v.is_u64() is inserted with
\* v.as_u64().unwrap() as u8; the keys of a Json object are distinct.
ReadOrtho(obj) ==
  [k \in {x \in DOMAIN obj : obj[x].tag = "U64"} |-> obj[k].n % U8Values]

\* from_str that takes a missing ortho_context for an empty one.
from_str_optional_ortho(s) ==
  IF s.tag = "Ok" /\ s.v.tag = "Object"
    THEN
      LET obj == s.v.o
          f_abbrev == ObjRemove(obj, "abbrev_types")
          f_starters == ObjRemove(obj, "sentence_starters")
          f_colls == ObjRemove(obj, "collocations")
          f_ortho == ObjRemove(obj, "ortho_context")
      IN  IF ~IsSomeArray(f_abbrev) THEN None
          ELSE IF ~IsSomeArray(f_starters) THEN None
          ELSE IF ~IsSomeArray(f_colls) THEN None
          ELSE LET colls == ReadCollocations(EmptyMap, f_colls.v.a, 1)
               IN  IF colls = None THEN None
                   ELSE IF f_ortho = None
                     THEN Some([abbrev_types |-> ReadStrings({}, f_abbrev.v.a, 1),
                                collocations |-> colls.v,
                                sentence_starters |-> ReadStrings({}, f_starters.v.a, 1),
                                orthographic_context |-> EmptyMap])
                   ELSE IF ~IsSomeObject(f_ortho) THEN None
                   ELSE Some([abbrev_types |-> ReadStrings({}, f_abbrev.v.a, 1),
                              collocations |-> colls.v,
                              sentence_starters |-> ReadStrings({}, f_starters.v.a, 1),
                              orthographic_context |-> ReadOrtho(f_ortho.v.o)])
    ELSE None

\* from_str whose sentence_starters loop inserts into the abbreviation set.
from_str_one_set(s) ==
  IF s.tag = "Ok" /\ s.v.tag = "Object"
    THEN
      LET obj == s.v.o
          f_abbrev == ObjRemove(obj, "abbrev_types")
          f_starters == ObjRemove(obj, "sentence_starters")
          f_colls == ObjRemove(obj, "collocations")
          f_ortho == ObjRemove(obj, "ortho_context")
      IN  IF ~IsSomeArray(f_abbrev) THEN None
          ELSE IF ~IsSomeArray(f_starters) THEN None
          ELSE IF ~IsSomeArray(f_colls) THEN None
          ELSE LET colls == ReadCollocations(EmptyMap, f_colls.v.a, 1)
               IN  IF colls = None THEN None
                   ELSE IF ~IsSomeObject(f_ortho) THEN None
                   ELSE Some([abbrev_types |->
                                ReadStrings(ReadStrings({}, f_abbrev.v.a, 1),
                                            f_starters.v.a, 1),
                              collocations |-> colls.v,
                              sentence_starters |-> {},
                              orthographic_context |-> ReadOrtho(f_ortho.v.o)])
    ELSE None

from_str(s) ==
  IF s.tag = "Ok" /\ s.v.tag = "Object"
    THEN
      LET obj == s.v.o
          f_abbrev == ObjRemove(obj, "abbrev_types")
          f_starters == ObjRemove(obj, "sentence_starters")
          f_colls == ObjRemove(obj, "collocations")
          f_ortho == ObjRemove(obj, "ortho_context")
      IN  IF ~IsSomeArray(f_abbrev) THEN None
          ELSE IF ~IsSomeArray(f_starters) THEN None
          ELSE IF ~IsSomeArray(f_colls) THEN None
          ELSE LET colls == ReadCollocations(EmptyMap, f_colls.v.a, 1)
               IN  IF colls = None THEN None
                   ELSE IF ~IsSomeObject(f_ortho) THEN None
                   ELSE Some([abbrev_types |-> ReadStrings({}, f_abbrev.v.a, 1),
                              collocations |-> colls.v,
                              sentence_starters |-> ReadStrings({}, f_starters.v.a, 1),
                              orthographic_context |-> ReadOrtho(f_ortho.v.o)])
    ELSE None

(***************************************************************************)
(* The documents from_str is applied to.                                   *)
(***************************************************************************)
\* Sequences over S of length at most n.
SeqsUpTo(S, n) == UNION {[1..k -> S] : k \in 0..n}

\* Elements of a Json array in a document: a string or a number.
Scalars == {JString(t) : t \in Tokens} \cup {JU64(0)}

\* What a document holds at abbrev_types or sentence_starters: nothing, a
\* value that is no array, or an array of at most MaxFlat scalars.
FlatFields ==
  {None, Some(JObject(EmptyMap)), Some(JU64(0))}
    \cup {Some(JArray(a)) : a \in SeqsUpTo(Scalars, MaxFlat)}

\* Elements of the collocations array: arrays of at most PairWidth + 1
\* scalars, and a string.
CollElements ==
  {JArray(a) : a \in SeqsUpTo(Scalars, PairWidth + 1)} \cup {JString(1)}

CollFields ==
  {None, Some(JObject(EmptyMap)), Some(JU64(0))}
    \cup {Some(JArray(a)) : a \in SeqsUpTo(CollElements, MaxColl)}

\* Values of ortho_context entries: a u8, a u64 past the u8 range, and a
\* negative integer.
OrthoValues == {JU64(MaxCtxt), JU64(U8Values + MaxCtxt), JI64(0 - 1)}

OrthoObjects ==
  UNION {[ks -> OrthoValues] : ks \in SUBSET Tokens}

OrthoFields ==
  {None, Some(JArray(<<>>)), Some(JU64(0))}
    \cup {Some(JObject(o)) : o \in OrthoObjects}

FieldNames == {"abbrev_types", "sentence_starters", "collocations", "ortho_context"}

\* The object document with the given four fields (None: field absent).
Document(a, s, c, o) ==
  LET field == [n \in FieldNames |->
                  CASE n = "abbrev_types" -> a
                    [] n = "sentence_starters" -> s
                    [] n = "collocations" -> c
                    [] n = "ortho_context" -> o]
  IN  Ok(JObject([n \in {x \in FieldNames : field[x] # None} |-> field[n].v]))

\* Inputs that are no Json object: a parse error, an array, a string.
NonObjects == {Err, Ok(JArray(<<>>)), Ok(JString(1))}

InitLoad ==
  /\ abbrev_types = {}
  /\ collocations = EmptyMap
  /\ sentence_starters = {}
  /\ orthographic_context = EmptyMap
  /\ ret = FALSE
  /\ op = Call("default", 0, 0)
  /\ iterator = None
  /\ item = None
  /\ yielded = EmptyBag
  /\ exhausted = FALSE
  /\ depth = 0
  /\ loaded = None
  /\ panicked = FALSE
  /\ \/ input \in NonObjects
     \/ \E a \in FlatFields, s \in FlatFields, c \in CollFields, o \in OrthoFields :
          input = Document(a, s, c, o)

\* let data: Option<TrainingData> = FromStr::from_str(input).
load ==
  /\ op = Call("default", 0, 0)
  /\ loaded' = from_str(input)
  /\ op' = Call("from_str", 0, 0)
  /\ UNCHANGED panicked
  /\ UNCHANGED <<store, ret, itvars, input>>

NextLoad == load

SpecLoad == InitLoad /\ [][NextLoad]_vars

(***************************************************************************)
(* Writing a store as a document of the four-field shape, and reading it   *)
(* back.  A set is written as an array of its elements in an order the     *)
(* hash table fixes and the caller cannot know.                            *)
(***************************************************************************)
\* The sequences that list the elements of S once each.
Orderings(S) ==
  {f \in [1..Cardinality(S) -> S] :
     \A i \in DOMAIN f, j \in DOMAIN f : f[i] = f[j] => i = j}

\* The documents that write the store: abbrev_types and sentence_starters as
\* arrays of strings, collocations as an array of [left, right] arrays,
\* ortho_context as an object from token to integer.
Serializations ==
  {Document(
     Some(JArray([i \in DOMAIN a |-> JString(a[i])])),
     Some(JArray([i \in DOMAIN s |-> JString(s[i])])),
     Some(JArray([i \in DOMAIN c |->
                    JArray(<<JString(c[i][1]), JString(c[i][2])>>)])),
     Some(JObject([k \in DOMAIN orthographic_context |->
                     JU64(orthographic_context[k])]))) :
     a \in Orderings(abbrev_types),
     s \in Orderings(sentence_starters),
     c \in Orderings(UNION {{<<l, r>> : r \in collocations[l]} :
                              l \in DOMAIN collocations})}

\* The store is written, and the document is handed to from_str.
round_trip ==
  /\ op.name # "round_trip"
  /\ \E doc \in Serializations :
       /\ input' = doc
       /\ loaded' = from_str(doc)
  /\ op' = Call("round_trip", 0, 0)
  /\ UNCHANGED panicked
  /\ UNCHANGED <<store, ret, itvars>>

(***************************************************************************)
(* Default::default(): a TrainingData with no data.                        *)
(***************************************************************************)
Init ==
  /\ abbrev_types = {}
  /\ collocations = EmptyMap
  /\ sentence_starters = {}
  /\ orthographic_context = EmptyMap
  /\ ret = FALSE
  /\ op = Call("default", 0, 0)
  /\ iterator = None
  /\ item = None
  /\ yielded = EmptyBag
  /\ exhausted = FALSE
  /\ depth = 0
  /\ input = Err
  /\ loaded = None
  /\ panicked = FALSE

\* The store driven through the abbreviation, sentence-starter and
\* orthographic-context operations.
NextSets ==
  \/ \E t \in Tokens : insert_abbrev(t)
  \/ \E t \in Tokens : insert_sentence_starter(t)
  \/ \E t \in Tokens, c \in Contexts : insert_orthographic_context(t, c)
  \/ \E t \in Tokens : remove_abbrev(t)
  \/ \E t \in Tokens : remove_sentence_starter(t)
  \/ \E t \in Tokens : remove_orthographic_context(t)
  \/ clear_abbrevs
  \/ clear_sentence_starters
  \/ clear_orthographic_context

SpecSets == Init /\ [][NextSets]_vars

\* The store driven through the collocation operations and one iterator at
\* a time.  The iterator borrows the store: no mutator runs while it lives.
NextColl ==
  \/ /\ iterator = None
     /\ \E l \in Tokens, r \in Tokens : insert_collocation(l, r)
  \/ /\ iterator = None
     /\ \E l \in Tokens, r \in Tokens : remove_collocation(l, r)
  \/ /\ iterator = None
     /\ clear_collocations
  \/ collocations_iter
  \/ next
  \/ drop

SpecColl == Init /\ [][NextColl]_vars

\* The store driven through all its mutators, no iterator alive.
Next ==
  \/ \E t \in Tokens : insert_abbrev(t)
  \/ \E l \in Tokens, r \in Tokens : insert_collocation(l, r)
  \/ \E t \in Tokens : insert_sentence_starter(t)
  \/ \E t \in Tokens, c \in Contexts : insert_orthographic_context(t, c)
  \/ clear_abbrevs
  \/ clear_collocations
  \/ clear_sentence_starters
  \/ clear_orthographic_context
  \/ \E t \in Tokens : remove_abbrev(t)
  \/ \E l \in Tokens, r \in Tokens : remove_collocation(l, r)
  \/ \E t \in Tokens : remove_sentence_starter(t)
  \/ \E t \in Tokens : remove_orthographic_context(t)

Spec == Init /\ [][Next]_vars

\* A store built by insert_* calls alone, then written and read back.
NextRound ==
  \/ /\ op.name # "round_trip"
     /\ \E t \in Tokens : insert_abbrev(t)
  \/ /\ op.name # "round_trip"
     /\ \E l \in Tokens, r \in Tokens : insert_collocation(l, r)
  \/ /\ op.name # "round_trip"
     /\ \E t \in Tokens : insert_sentence_starter(t)
  \/ /\ op.name # "round_trip"
     /\ \E t \in Tokens, c \in Contexts : insert_orthographic_context(t, c)
  \/ round_trip

SpecRound == Init /\ [][NextRound]_vars

(***************************************************************************)
(* Properties of the store.                                                *)
(***************************************************************************)
\* The recorded pairs: the (l, r) for which contains_collocation is true.
Pairs == {p \in Tokens \X Tokens : contains_collocation(p[1], p[2])}

\* C1: a left token is a key of the collocations map iff its bucket holds at
\* least one right token: no key of the map has an empty bucket.
C1_NoEmptyBucket ==
  \A l \in Tokens :
    (l \in DOMAIN collocations) <=> (\E r \in Tokens : contains_collocation(l, r))

\* C2, as stated: after insert_collocation(l, r), contains_collocation(l, r)
\* is true and collocations_len() is exactly 1 greater than before the call.
C2_LenAlwaysGrows ==
  [][\A l \in Tokens, r \in Tokens :
       insert_collocation(l, r) =>
         /\ contains_collocation(l, r)'
         /\ collocations_len' = collocations_len + 1]_vars

\* C2, amended: after insert_collocation(l, r), contains_collocation(l, r) is
\* true; collocations_len() is exactly 1 greater than before and the call
\* returns true when (l, r) was not recorded, and is unchanged with the call
\* returning false when (l, r) was already recorded.
C2_LenGrowsIffNew ==
  [][\A l \in Tokens, r \in Tokens :
       insert_collocation(l, r) =>
         /\ contains_collocation(l, r)'
         /\ IF contains_collocation(l, r)
              THEN collocations_len' = collocations_len /\ ret' = FALSE
              ELSE collocations_len' = collocations_len + 1 /\ ret' = TRUE]_vars

\* A pair already recorded was inserted again, into a bucket of two.
C2_Witness ==
  \E l \in Tokens, r \in Tokens :
    /\ op = Call("insert_collocation", l, r)
    /\ ret = FALSE
    /\ contains_collocation(l, r)
    /\ Cardinality(collocations[l]) = 2

\* C3: insert_abbrev(t) of a token not in the abbreviation set returns true
\* and contains_abbrev(t) holds afterwards; insert_abbrev(t) of a token that
\* is in the set returns false and leaves the set unchanged; the same for
\* insert_sentence_starter and the sentence-starter set.
C3_InsertIfAbsent ==
  [][\A t \in Tokens :
       /\ insert_abbrev(t) =>
            IF ~contains_abbrev(t)
              THEN ret' = TRUE /\ contains_abbrev(t)'
              ELSE ret' = FALSE /\ abbrev_types' = abbrev_types
       /\ insert_sentence_starter(t) =>
            IF ~contains_sentence_starter(t)
              THEN ret' = TRUE /\ contains_sentence_starter(t)'
              ELSE ret' = FALSE /\ sentence_starters' = sentence_starters]_vars

\* A second insert_abbrev of a token was refused, in a store that also holds
\* a sentence starter.
C3_Witness ==
  \E t \in Tokens :
    /\ op = Call("insert_abbrev", t, 0)
    /\ ret = FALSE
    /\ contains_abbrev(t)
    /\ sentence_starters # {}

\* C4: insert_orthographic_context(t, v2) for a token that already has a
\* value v1 # v2 returns false and get_orthographic_context(t) is still v1;
\* what get_orthographic_context(t) returns for a token with a value changes
\* only in a remove_orthographic_context(t) or a clear_orthographic_context.
C4_WriteOnce ==
  [][/\ \A t \in Tokens, v2 \in Contexts :
          (/\ insert_orthographic_context(t, v2)
           /\ contains_orthographic_context(t)
           /\ orthographic_context[t] # v2)
          => /\ ret' = FALSE
             /\ get_orthographic_context(t)' = Some(orthographic_context[t])
     /\ \A t \in Tokens :
          (/\ contains_orthographic_context(t)
           /\ get_orthographic_context(t)' # get_orthographic_context(t))
          => (remove_orthographic_context(t) \/ clear_orthographic_context)]_vars

\* An insert with another value was refused and the first value is kept.
C4_Witness ==
  \E t \in Tokens, v2 \in Contexts :
    /\ op = Call("insert_orthographic_context", t, v2)
    /\ ret = FALSE
    /\ get_orthographic_context(t) # None
    /\ get_orthographic_context(t) # Some(v2)

(***************************************************************************)
(* Properties of the iterator.                                             *)
(***************************************************************************)
\* C9: a collocations_iter() driven until it returns None has yielded each
\* recorded pair exactly once and nothing else; before that it has yielded
\* recorded pairs only, none of them twice.
C9_EachPairOnce ==
  iterator # None =>
    /\ \A p \in BagToSet(yielded) : CopiesIn(p, yielded) = 1 /\ p \in Pairs
    /\ exhausted => yielded = SetToBag(Pairs)

\* The iterator is exhausted over two buckets holding three pairs.
C9_Witness ==
  /\ iterator # None
  /\ exhausted
  /\ Cardinality(DOMAIN collocations) = 2
  /\ BagCardinality(yielded) = 3

\* C10: a call to next re-enters itself at most once per left token of the
\* map (empty buckets included) and then returns; the iterator yields at most
\* collocations_len() pairs; once it has returned None, every later call
\* returns None.
C10_Terminates ==
  iterator # None =>
    /\ depth <= Cardinality(DOMAIN collocations)
    /\ BagCardinality(yielded) <= collocations_len
    /\ exhausted => item = None

\* A call that left a finished bucket, skipped an empty one and returned None.
C10_Witness ==
  /\ iterator # None
  /\ exhausted
  /\ depth = 2
  /\ \E l \in DOMAIN collocations : collocations[l] = {}
  /\ BagCardinality(yielded) = 1

(***************************************************************************)
(* Properties of from_str.                                                 *)
(***************************************************************************)
\* What the document holds at a field (None: nothing, or no object at all).
FieldOf(name) ==
  IF input.tag = "Ok" /\ input.v.tag = "Object"
    THEN ObjRemove(input.v.o, name)
    ELSE None

\* The four fields are present with their top-level shapes.
ShapesOk ==
  /\ IsSomeArray(FieldOf("abbrev_types"))
  /\ IsSomeArray(FieldOf("sentence_starters"))
  /\ IsSomeArray(FieldOf("collocations"))
  /\ IsSomeObject(FieldOf("ortho_context"))

\* The elements of the array at a field.
ElementsOf(name) ==
  LET arr == FieldOf(name).v.a IN {arr[i] : i \in 1..Len(arr)}

\* A Json array of at least two elements whose last two are strings.
IsPairArray(x) ==
  /\ x.tag = "Array"
  /\ Len(x.a) >= PairWidth
  /\ x.a[Len(x.a)].tag = "String"
  /\ x.a[Len(x.a) - 1].tag = "String"

\* (second-to-last element, last element) of such an array.
TailPair(x) == <<x.a[Len(x.a) - 1].s, x.a[Len(x.a)].s>>

\* The (left, right) pairs of a collocations map.
PairsOf(m) == UNION {{<<l, r>> : r \in m[l]} : l \in DOMAIN m}

StringsOf(name) == {x.s : x \in {y \in ElementsOf(name) : y.tag = "String"}}

\* C5: when the input is no object, or one of the four fields is missing or
\* has the wrong top-level shape, from_str returns None.
C5_AllOrNothing ==
  (op.name = "from_str" /\ ~ShapesOk) => loaded = None

\* The first three fields each list a valid element, ortho_context is
\* missing, and from_str returned None.
C5_Witness ==
  /\ op.name = "from_str"
  /\ IsSomeArray(FieldOf("abbrev_types"))
  /\ IsSomeArray(FieldOf("sentence_starters"))
  /\ IsSomeArray(FieldOf("collocations"))
  /\ StringsOf("abbrev_types") # {}
  /\ StringsOf("sentence_starters") # {}
  /\ ElementsOf("collocations") # {}
  /\ \A x \in ElementsOf("collocations") : IsPairArray(x)
  /\ FieldOf("ortho_context") = None
  /\ loaded = None
  /\ panicked = FALSE

\* C6: with the four fields in shape, the load fails when some element of the
\* collocations array is not an array of at least two elements whose last two
\* are strings, and succeeds otherwise, whatever non-string elements
\* abbrev_types and sentence_starters hold.
C6_BadElementAborts ==
  (op.name = "from_str" /\ ShapesOk) =>
    IF \A x \in ElementsOf("collocations") : IsPairArray(x)
      THEN loaded # None
      ELSE loaded = None

\* C7: a successful load records exactly the pairs (second-to-last, last) of
\* the inner arrays of collocations whose last two elements are strings.
C7_TailPairs ==
  (op.name = "from_str" /\ loaded # None) =>
    PairsOf(loaded.v.collocations) =
      {TailPair(x) : x \in {y \in ElementsOf("collocations") : IsPairArray(y)}}

\* The document lists ["1","2","1"] and the load recorded (2, 1), not (1, 2).
C7_Witness ==
  /\ op.name = "from_str"
  /\ loaded # None
  /\ JArray(<<JString(1), JString(2), JString(1)>>) \in ElementsOf("collocations")
  /\ <<2, 1>> \in PairsOf(loaded.v.collocations)
  /\ <<1, 2>> \notin PairsOf(loaded.v.collocations)

\* The four fields are in shape and every element of collocations is an
\* array whose last two elements are strings.
WellFormed ==
  /\ ShapesOk
  /\ \A x \in ElementsOf("collocations") : IsPairArray(x)

\* C8: from_str of a well-formed document succeeds; the store's abbreviation
\* and sentence-starter sets are the string elements of their fields, its
\* collocations the pairs of the collocations array, and its orthographic
\* context has an entry exactly for the keys with a non-negative integer.
C8_WellFormedLoads ==
  (op.name = "from_str" /\ WellFormed) =>
    /\ loaded # None
    /\ loaded.v.abbrev_types = StringsOf("abbrev_types")
    /\ loaded.v.sentence_starters = StringsOf("sentence_starters")
    /\ PairsOf(loaded.v.collocations) =
         {TailPair(x) : x \in ElementsOf("collocations")}
    /\ DOMAIN loaded.v.orthographic_context =
         {k \in DOMAIN FieldOf("ortho_context").v.o :
            FieldOf("ortho_context").v.o[k].tag = "U64"}

\* A well-formed document with a valid element in each field was loaded into
\* four non-empty containers.
C8_Witness ==
  /\ op.name = "from_str"
  /\ WellFormed
  /\ loaded # None
  /\ loaded.v.abbrev_types # {}
  /\ loaded.v.sentence_starters # {}
  /\ Cardinality(PairsOf(loaded.v.collocations)) = 2
  /\ DOMAIN loaded.v.orthographic_context # {}

(***************************************************************************)
(* Further properties of the collocations and their iterator.              *)
(***************************************************************************)
\* C11: collocations_len() is the sum of the bucket sizes, which is the
\* number of distinct (left, right) pairs of the map, not the number of its
\* left tokens.
C11_LenIsSumOfBuckets ==
  collocations_len = Cardinality(PairsOf(collocations))

\* Two left tokens, one of them with two collocates: the length is 3.
C11_Witness ==
  /\ Cardinality(DOMAIN collocations) = 2
  /\ \E l \in DOMAIN collocations : Cardinality(collocations[l]) = 2
  /\ collocations_len = 3

\* The pairs an iterator in state s has still to yield: those left in its
\* current bucket and those of the buckets its outer cursor has not reached.
StillToYield(s) ==
  (IF s.cur = None THEN 0 ELSE Cardinality(s.cur.v.it))
    + Cardinality(UNION {{<<k, r>> : r \in collocations[k]} : k \in s.iter})

\* C18: the lower bound size_hint reports is at most the number of pairs the
\* iterator will still yield.
C18_SizeHintLowerBound ==
  iterator # None => size_hint(iterator.v)[1] <= StillToYield(iterator.v)

\* C19: collocations_len(), the number of pairs a full traversal yields and
\* the number of (l, r) with contains_collocation(l, r) agree; no pair is
\* yielded from an empty bucket; insert_collocation(l, r) into an emptied
\* bucket returns true and leaves the map that the same call leaves when l
\* has no bucket.
C19_ViewsAgree ==
  /\ [](/\ collocations_len = Cardinality(Pairs)
        /\ (iterator # None /\ exhausted) =>
             BagCardinality(yielded) = collocations_len
        /\ \A p \in BagToSet(yielded) : collocations[p[1]] # {})
  /\ [][\A l \in Tokens, r \in Tokens :
          (/\ insert_collocation(l, r)
           /\ l \in DOMAIN collocations
           /\ collocations[l] = {})
          => /\ ret' = TRUE
             /\ collocations' = MapInsert(MapRemove(collocations, l), l, {r})
             /\ collocations_len' = collocations_len + 1
             /\ contains_collocation(l, r)']_vars

\* A traversal over an emptied bucket and a bucket of two is exhausted.
C19_Witness ==
  /\ iterator # None
  /\ exhausted
  /\ \E l \in DOMAIN collocations : collocations[l] = {}
  /\ collocations_len = 2
  /\ BagCardinality(yielded) = 2

(***************************************************************************)
(* Frame and result of the clear_* and remove_* operations.                *)
(***************************************************************************)
\* C12: each clear_* leaves its own container empty and the other three
\* containers as they were.
C12_ClearFrame ==
  [][/\ clear_abbrevs =>
          /\ abbrev_types' = {}
          /\ abbrevs_len' = 0
          /\ UNCHANGED <<collocations, sentence_starters, orthographic_context>>
     /\ clear_collocations =>
          /\ collocations' = EmptyMap
          /\ collocations_len' = 0
          /\ UNCHANGED <<abbrev_types, sentence_starters, orthographic_context>>
     /\ clear_sentence_starters =>
          /\ sentence_starters' = {}
          /\ sentence_starters_len' = 0
          /\ UNCHANGED <<abbrev_types, collocations, orthographic_context>>
     /\ clear_orthographic_context =>
          /\ orthographic_context' = EmptyMap
          /\ orthographic_context_len' = 0
          /\ UNCHANGED <<abbrev_types, collocations, sentence_starters>>]_vars

\* clear_abbrevs has run on a store whose other three containers hold
\* something.
C12_Witness ==
  /\ op = Call("clear_abbrevs", 0, 0)
  /\ abbrev_types = {}
  /\ collocations_len > 0
  /\ sentence_starters # {}
  /\ DOMAIN orthographic_context # {}

\* C13: remove_collocation(l, r) for an l without a bucket returns false and
\* changes none of the four containers, the left tokens of the map included;
\* for an l with a bucket it returns whether r was in the bucket, and r is
\* not in it afterwards.
C13_RemoveCollocation ==
  [][\A l \in Tokens, r \in Tokens :
       remove_collocation(l, r) =>
         IF l \notin DOMAIN collocations
           THEN /\ ret' = FALSE
                /\ UNCHANGED store
                /\ DOMAIN collocations' = DOMAIN collocations
           ELSE /\ ret' = (r \in collocations[l])
                /\ ~contains_collocation(l, r)']_vars

\* remove_collocation has returned false for a left token without a bucket,
\* on a store whose four containers hold something.
C13_Witness ==
  /\ op.name = "remove_collocation"
  /\ op.tok0 \notin DOMAIN collocations
  /\ ret = FALSE
  /\ abbrev_types # {}
  /\ collocations_len > 0
  /\ sentence_starters # {}
  /\ DOMAIN orthographic_context # {}

\* C15: no operation of the store panics; the bucket insert_collocation
\* unwraps is always there.
C15_NoPanic == panicked = FALSE

\* insert_collocation has created the bucket of its left token and put its
\* right token there, while another left token has a bucket already.
C15_Witness ==
  /\ op.name = "insert_collocation"
  /\ ret = TRUE
  /\ op.tok0 \in DOMAIN collocations
  /\ collocations[op.tok0] = {op.tok1}
  /\ Cardinality(DOMAIN collocations) = 2
  /\ panicked = FALSE

\* C16: remove_abbrev, remove_sentence_starter and
\* remove_orthographic_context return whether the token was there; the token
\* is absent afterwards, every other element is kept, and the length drops
\* by one exactly when the result is true.
C16_RemoveIfPresent ==
  [][\A t \in Tokens :
       /\ remove_abbrev(t) =>
            /\ ret' = contains_abbrev(t)
            /\ ~contains_abbrev(t)'
            /\ \A u \in Tokens \ {t} : contains_abbrev(u)' = contains_abbrev(u)
            /\ abbrevs_len' = abbrevs_len - (IF ret' THEN 1 ELSE 0)
       /\ remove_sentence_starter(t) =>
            /\ ret' = contains_sentence_starter(t)
            /\ ~contains_sentence_starter(t)'
            /\ \A u \in Tokens \ {t} :
                 contains_sentence_starter(u)' = contains_sentence_starter(u)
            /\ sentence_starters_len' =
                 sentence_starters_len - (IF ret' THEN 1 ELSE 0)
       /\ remove_orthographic_context(t) =>
            /\ ret' = contains_orthographic_context(t)
            /\ ~contains_orthographic_context(t)'
            /\ \A u \in Tokens \ {t} :
                 get_orthographic_context(u)' = get_orthographic_context(u)
            /\ orthographic_context_len' =
                 orthographic_context_len - (IF ret' THEN 1 ELSE 0)]_vars

\* remove_orthographic_context has removed one token's context and kept the
\* other's.
C16_Witness ==
  /\ op.name = "remove_orthographic_context"
  /\ ret = TRUE
  /\ op.tok0 \notin DOMAIN orthographic_context
  /\ orthographic_context_len = 1

(***************************************************************************)
(* The values of ortho_context.                                            *)
(***************************************************************************)
\* C17: a load that succeeds stores, for every ortho_context key whose value
\* is a non-negative integer v, the value v mod 256, and has no entry for a
\* key whose value is anything else; such a value does not make the load
\* fail.
C17_OrthoNarrowing ==
  op.name = "from_str" =>
    /\ WellFormed => loaded # None
    /\ loaded # None =>
         LET obj == FieldOf("ortho_context").v.o
             ctx == loaded.v.orthographic_context
         IN  \A k \in DOMAIN obj :
               IF obj[k].tag = "U64"
                 THEN k \in DOMAIN ctx /\ ctx[k] = obj[k].n % U8Values
                 ELSE k \notin DOMAIN ctx

\* A document whose ortho_context has a value past the u8 range and a
\* negative value was loaded: the first is stored narrowed, the second is
\* not stored.
C17_Witness ==
  /\ op.name = "from_str"
  /\ loaded # None
  /\ LET obj == FieldOf("ortho_context").v.o
         ctx == loaded.v.orthographic_context
     IN  /\ \E k \in DOMAIN obj :
               /\ obj[k] = JU64(U8Values + MaxCtxt)
               /\ k \in DOMAIN ctx
               /\ ctx[k] = MaxCtxt
         /\ \E k \in DOMAIN obj : obj[k].tag = "I64" /\ k \notin DOMAIN ctx

(***************************************************************************)
(* Writing and reading back.                                               *)
(***************************************************************************)
\* C14: a store built by insert_* calls, written in the four-field shape and
\* read back by from_str, loads, and the loaded store has the same
\* abbreviations, sentence starters, collocation pairs and orthographic
\* contexts.
C14_RoundTrip ==
  op.name = "round_trip" =>
    /\ loaded # None
    /\ loaded.v.abbrev_types = abbrev_types
    /\ loaded.v.sentence_starters = sentence_starters
    /\ PairsOf(loaded.v.collocations) = PairsOf(collocations)
    /\ loaded.v.orthographic_context = orthographic_context

\* A store with two abbreviations, a sentence starter, three collocations
\* (one of them without its mirror image) and two different orthographic
\* contexts was written and read back.
C14_Witness ==
  /\ op.name = "round_trip"
  /\ loaded # None
  /\ abbrevs_len = 2
  /\ sentence_starters_len = 1
  /\ collocations_len = 3
  /\ \E l \in Tokens, r \in Tokens :
       contains_collocation(l, r) /\ ~contains_collocation(r, l)
  /\ orthographic_context_len = 2
  /\ \E t \in Tokens, u \in Tokens :
       get_orthographic_context(t) # get_orthographic_context(u)

=============================================================================
